---- MODULE Spec2Model ----
(***************************************************************************)
(* Model of the token-stream rewrite pipeline of serve_md                  *)
(* (crates/core/src/lib.rs, crates/core/src/plugin.rs).                    *)
(*                                                                         *)
(* Positions are 0-based as in the Rust code; TLA+ sequences are 1-based,  *)
(* so the indexed token at position p is collection[p + 1].                *)
(* Text is a sequence of one-character strings.                            *)
(***************************************************************************)
EXTENDS Integers, Sequences, FiniteSets, TLC

VARIABLES
    state,              \* the shared State: plugin options
    pc,                 \* position of the document's processing
    parsed,             \* the events the Markdown parser produced
    plugins,            \* Vec<Box<dyn Plugin>> built for this document
    index,              \* index of the plugin loop of process_commonmark_tokens
    collection,         \* collection_vec / collection_slice: (position, event) pairs
    win,                \* start of the next window of check_collection_with
    ch_range,           \* CollapsibleHeaders.range (the plugin's private state)
    ranges,             \* the ranges check_collection_with collected
    final_ret,          \* what final_check returned in this pass
    final_call,         \* the positions final_check was called with in this pass
    scan_result,        \* "pending", or the shape of check_collection_with's result
    idx,                \* cursor of rewrite_collection_with
    range_idx,          \* index of the pending range of rewrite_collection_with
    plugin_collection,  \* output under construction of rewrite_collection_with
    rs_slice,           \* the slice of the last replace_slice call of this pass
    rs_out,             \* what that replace_slice call returned
    new_collection,     \* output of the last finished pass
    e_pc,               \* Emoji spec: position
    e_tok,              \* Emoji spec: the token of the one-token window
    e_pos,              \* Emoji spec: the position of the token
    e_check,            \* Emoji spec: result of check_slice
    e_out,              \* Emoji spec: result of replace_slice
    h_pc,               \* option parser spec: position
    h_input,            \* option parser spec: the argument of --collapsible-headers
    h_result,           \* option parser spec: what parse_collapsible_headers returned
    front_matter,       \* request spec: State::front_matter is Some(..)
    r_entry,            \* request spec: the function the caller entered
    r_ext,              \* request spec: the extension of the requested path
    r_files,            \* request spec: the files at the .md path and at the requested path
    r_pc,               \* request spec: position of the call
    r_file,             \* request spec: the path handed to the payload generator
    r_buf,              \* request spec: the bytes read
    r_input_utf8,       \* request spec: input is valid UTF-8 after the front matter step
    r_pod,              \* request spec: the front matter taken from the document
    r_read,             \* request spec: the paths whose file was read
    r_runs,             \* request spec: calls of process_commonmark_tokens
    r_result,           \* request spec: what the caller got
    c_doc,              \* concurrent spec: the parsed events of each document
    c_pc,               \* concurrent spec: position of each document's processing
    c_index,            \* concurrent spec: index of each document's plugin loop
    c_collection,       \* concurrent spec: collection_vec of each document
    c_ranges,           \* concurrent spec: the ranges of each document's last scan
    c_range,            \* concurrent spec: CollapsibleHeaders.range of each plugin instance
    c_out,              \* concurrent spec: new_collection of each document
    m_slice,            \* front matter spec: RefDefMatter.slice, the input bytes
    m_pc,               \* front matter spec: position
    m_i,                \* front matter spec: the index of scan's loop
    m_til_end,          \* front matter spec: til_end of scan
    m_range             \* front matter spec: RefDefMatter.range

vars == << state, pc, parsed, plugins, index, collection, win, ch_range, ranges,
           final_ret, final_call, scan_result, idx, range_idx, plugin_collection, rs_slice,
           rs_out, new_collection, e_pc, e_tok, e_pos, e_check, e_out,
           h_pc, h_input, h_result, front_matter, r_entry, r_ext, r_files, r_pc,
           r_file, r_buf, r_input_utf8, r_pod, r_read, r_runs, r_result,
           c_doc, c_pc, c_index, c_collection, c_ranges, c_range, c_out,
           m_slice, m_pc, m_i, m_til_end, m_range >>

pipeline_vars == << state, pc, parsed, plugins, index, collection, win, ch_range,
                    ranges, final_ret, final_call, scan_result, idx, range_idx,
                    plugin_collection, rs_slice, rs_out, new_collection >>

emoji_vars == << e_pc, e_tok, e_pos, e_check, e_out >>

option_vars == << h_pc, h_input, h_result >>

request_vars == << front_matter, r_entry, r_ext, r_files, r_pc, r_file, r_buf,
                   r_input_utf8, r_pod, r_read, r_runs, r_result >>

conc_vars == << c_doc, c_pc, c_index, c_collection, c_ranges, c_range, c_out >>

matter_vars == << m_slice, m_pc, m_i, m_til_end, m_range >>

\* what the steps of the pipeline leave alone
beside_pipeline == << emoji_vars, option_vars, request_vars, conc_vars, matter_vars >>

\* what the steps of the Emoji specification leave alone
beside_emoji == << pipeline_vars, option_vars, request_vars, conc_vars, matter_vars >>

----------------------------------------------------------------------------
(* Bounds of the model *)

\* longest parsed document, in tokens
MaxLen == 11

\* longest input of the front matter specification, in bytes
MaxSliceLen == 4

\* longest text of the Emoji specification, in characters
MaxTextLen == 8

\* largest position of the token of the Emoji specification
MaxPos == 1

----------------------------------------------------------------------------
(* Option<Range<usize>> and Range<usize> *)

None == [some |-> FALSE, start |-> 0, end |-> 0]

Some(s, e) == [some |-> TRUE, start |-> s, end |-> e]

Range(s, e) == [start |-> s, end |-> e]

\* Range::len: 0 when end <= start
\* a length that is one short
RangeLen_short(r) == IF r.end > r.start + 1 THEN r.end - r.start - 1 ELSE 0

RangeLen(r) == IF r.end > r.start THEN r.end - r.start ELSE 0

\* a range taken to begin one past its start
RangeContains_after_start(r, p) == r.start < p /\ p < r.end

\* Range::contains
RangeContains(r, p) == r.start <= p /\ p < r.end

----------------------------------------------------------------------------
(* Events (pulldown_cmark::Event), as uniform records *)

Tok(kind, tag, lvl, cow, val) ==
    [kind |-> kind, tag |-> tag, lvl |-> lvl, cow |-> cow, val |-> val]

StartHeading(l) == Tok("Start", "Heading", l, "-", << >>)

EndHeading(l) == Tok("End", "Heading", l, "-", << >>)

StartEmphasis == Tok("Start", "Emphasis", 0, "-", << >>)

EndEmphasis == Tok("End", "Emphasis", 0, "-", << >>)

StartParagraph == Tok("Start", "Paragraph", 0, "-", << >>)

EndParagraph == Tok("End", "Paragraph", 0, "-", << >>)

Text(cow, val) == Tok("Text", "-", 0, cow, val)

Rule == Tok("Rule", "-", 0, "-", << >>)

SoftBreak == Tok("SoftBreak", "-", 0, "-", << >>)

Html(s) == Tok("Html", "-", 0, "Borrowed", << s >>)

\* HeadingLevel::H5 as u8
H5 == 5

----------------------------------------------------------------------------
(* The emojis crate: get_by_shortcode, on a small table *)

EmojiTable == (<< "a" >> :> "A")

get_by_shortcode(name) ==
    IF name \in DOMAIN EmojiTable
    THEN [some |-> TRUE, glyph |-> << EmojiTable[name] >>]
    ELSE [some |-> FALSE, glyph |-> << >>]

----------------------------------------------------------------------------
(* String helpers over sequences of characters *)

\* str::find(':') from byte offset `from` (0-based); -1 stands for None
RECURSIVE FindColon(_, _)
FindColon(value, from) ==
    IF from >= Len(value) THEN -1
    ELSE IF value[from + 1] = ":" THEN from
    ELSE FindColon(value, from + 1)

\* &value[a..b] with 0-based half-open byte offsets
Slice(value, a, b) == SubSeq(value, a + 1, b)

StartsWith(hay, pat) ==
    Len(pat) <= Len(hay) /\ SubSeq(hay, 1, Len(pat)) = pat

\* str::replace: every non-overlapping occurrence, left to right
RECURSIVE StrReplace(_, _, _)
StrReplace(hay, from, to) ==
    IF hay = << >> THEN << >>
    ELSE IF from # << >> /\ StartsWith(hay, from)
    THEN to \o StrReplace(SubSeq(hay, Len(from) + 1, Len(hay)), from, to)
    ELSE << Head(hay) >> \o StrReplace(Tail(hay), from, to)

----------------------------------------------------------------------------
(* Plugin for Emoji *)

Emoji_window_size == 1

\* The candidate of check_slice: the text between the first colon and the
\* next one, Option<RangeInclusive> as [some, lo, hi) in byte offsets.
Emoji_first_candidate(value) ==
    LET start == FindColon(value, 0)
        next == IF start = -1 THEN -1 ELSE FindColon(value, start + 1)
    IN IF start = -1 \/ next = -1
       THEN [some |-> FALSE, name |-> << >>]
       ELSE [some |-> TRUE, name |-> Slice(value, start + 1, next)]

\* check_slice returning the empty range i..i
Emoji_check_slice_empty(slice) ==
    IF Len(slice) = 1 /\ slice[1].tok.kind = "Text"
    THEN LET c == Emoji_first_candidate(slice[1].tok.val)
         IN IF c.some /\ get_by_shortcode(c.name).some
            THEN Some(slice[1].pos, slice[1].pos)
            ELSE None
    ELSE None

Emoji_check_slice(slice) ==
    IF Len(slice) = 1 /\ slice[1].tok.kind = "Text"
    THEN LET c == Emoji_first_candidate(slice[1].tok.val)
         IN IF c.some /\ get_by_shortcode(c.name).some
            THEN Some(slice[1].pos, slice[1].pos + 1)
            ELSE None
    ELSE None

Emoji_final_check(pos) == None

\* The char_indices loop of replace_slice: st = [range, ranges], where range
\* is the Option<Range> under construction (start..0 while incomplete).
RECURSIVE Emoji_scan(_, _, _)
Emoji_scan(value, i, st) ==
    IF i >= Len(value) THEN st
    ELSE LET c == value[i + 1]
             nxt == IF ~st.range.some
                    THEN IF c = ":"
                         THEN [st EXCEPT !.range = Some(i, 0)]
                         ELSE st
                    ELSE IF c = ":"
                         THEN [range |-> None,
                               ranges |-> IF (i + 1) - st.range.start > 2
                                          THEN Append(st.ranges, Range(st.range.start, i + 1))
                                          ELSE st.ranges]
                         ELSE st
         IN Emoji_scan(value, i + 1, nxt)

\* The candidate ranges of replace_slice, the trailing incomplete one included
Emoji_ranges(value) ==
    LET st == Emoji_scan(value, 0, [range |-> None, ranges |-> << >>])
    IN IF st.range.some /\ st.range.end = 0 /\ Len(value) - st.range.start > 2
       THEN Append(st.ranges, Range(st.range.start, Len(value)))
       ELSE st.ranges

\* The substitution loop of replace_slice over the reversed ranges
RECURSIVE Emoji_substitute(_, _, _, _)
Emoji_substitute(value, rs, k, result) ==
    IF k < 1 THEN result
    ELSE LET s == Slice(value, rs[k].start, rs[k].end)
             emoji == get_by_shortcode(Slice(s, 1, Len(s) - 1))
         IN Emoji_substitute(value, rs, k - 1,
                IF emoji.some THEN StrReplace(result, s, emoji.glyph) ELSE result)

Emoji_replace_text(value) ==
    LET rs == Emoji_ranges(value)
    IN Emoji_substitute(value, rs, Len(rs), value)

Emoji_replace_slice(slice) ==
    IF Len(slice) = 1 /\ slice[1].tok.kind = "Text"
    THEN << Text("Boxed", Emoji_replace_text(slice[1].tok.val)) >>
    ELSE [i \in 1..Len(slice) |-> slice[i].tok]

----------------------------------------------------------------------------
(* Plugin for CollapsibleHeaders.  The plugin's fields are self.range      *)
(* (ch_range), self.level and self.text; check_slice and final_check       *)
(* return [range |-> the new self.range, ret |-> the returned Option].     *)

CH_window_size == 4

\* closing without `self.range = None`: the span stays open
CH_close_keeps_open(range, e) ==
    [range |-> Some(range.start, e), ret |-> Some(range.start, e)]

\* `range.end = e; let r = range.clone(); self.range = None; return Some(r)`
CH_close(range, e) ==
    [range |-> None, ret |-> Some(range.start, e)]

\* the pattern taking any text, borrowed or owned
CH_marker_pattern_any_text(slice) ==
    /\ slice[1].tok.kind = "Start" /\ slice[1].tok.tag = "Heading"
    /\ slice[2].tok = StartEmphasis
    /\ slice[3].tok.kind = "Text"
    /\ slice[4].tok = EndEmphasis

\* The first arm's pattern: heading-open, emphasis-open, borrowed text,
\* emphasis-close
CH_marker_pattern(slice) ==
    /\ slice[1].tok.kind = "Start" /\ slice[1].tok.tag = "Heading"
    /\ slice[2].tok = StartEmphasis
    /\ slice[3].tok.kind = "Text" /\ slice[3].tok.cow = "Borrowed"
    /\ slice[4].tok = EndEmphasis

CH_check_slice(range, level, text, slice) ==
    IF CH_marker_pattern(slice)
    THEN IF slice[1].tok.lvl >= level /\ slice[3].tok.val = text
         THEN IF range.some
              THEN CH_close(range, slice[4].pos)
              ELSE [range |-> Some(slice[1].pos, slice[4].pos), ret |-> None]
         ELSE [range |-> range, ret |-> None]
    ELSE IF slice[1].tok.kind = "Start" /\ slice[1].tok.tag = "Heading"
    THEN IF slice[1].tok.lvl < H5 /\ range.some
         THEN CH_close(range, slice[1].pos)
         ELSE [range |-> range, ret |-> None]
    ELSE IF slice[1].tok = Rule
    THEN IF range.some
         THEN CH_close(range, slice[1].pos)
         ELSE [range |-> range, ret |-> None]
    ELSE [range |-> range, ret |-> None]

\* final_check ending the span one past the position it is given
CH_final_check_past(range, pos) ==
    IF range.some
    THEN [range |-> Some(range.start, pos + 1), ret |-> Some(range.start, pos + 1)]
    ELSE [range |-> range, ret |-> None]

CH_final_check(range, pos) ==
    IF range.some
    THEN [range |-> Some(range.start, pos), ret |-> Some(range.start, pos)]
    ELSE [range |-> range, ret |-> None]

CH_replace_slice(slice) ==
    << Html("<details open>"), SoftBreak, Html("<summary>") >>
    \o (IF Len(slice) >= 4
        THEN << slice[2].tok, slice[3].tok, slice[4].tok >>
        ELSE << >>)
    \o << Html("</summary>") >>
    \o [i \in 1..(IF Len(slice) > 5 THEN Len(slice) - 5 ELSE 0) |-> slice[i + 5].tok]
    \o << Html("</details>") >>

----------------------------------------------------------------------------
(* Dynamic dispatch over Box<dyn Plugin> *)

window_size(plugin) ==
    IF plugin = "Emoji" THEN Emoji_window_size ELSE CH_window_size

check_slice(plugin, range, slice) ==
    IF plugin = "Emoji"
    THEN [range |-> range, ret |-> Emoji_check_slice(slice)]
    ELSE CH_check_slice(range, state.collapsible_headers.level,
                        state.collapsible_headers.text, slice)

final_check(plugin, range, pos) ==
    IF plugin = "Emoji"
    THEN [range |-> range, ret |-> Emoji_final_check(pos)]
    ELSE CH_final_check(range, pos)

replace_slice(plugin, slice) ==
    IF plugin = "Emoji" THEN Emoji_replace_slice(slice) ELSE CH_replace_slice(slice)

----------------------------------------------------------------------------
(* The documents and the options of the model *)

\* the marker text of a collapsible heading, and a text holding a shortcode
MarkerText == << "t" >>

ShortcodeText == << ":", "a", ":" >>

\* State.collapsible_headers: None, or Some((level, text))
NoHeaders == [some |-> FALSE, level |-> 0, text |-> << >>]

CollapsibleOptions ==
    { NoHeaders,
      [some |-> TRUE, level |-> 5, text |-> MarkerText],
      [some |-> TRUE, level |-> 6, text |-> MarkerText],
      [some |-> TRUE, level |-> 7, text |-> MarkerText],
      [some |-> TRUE, level |-> 6, text |-> << "A" >>],
      [some |-> TRUE, level |-> 6, text |-> ShortcodeText] }

States == [emoji_shortcodes : BOOLEAN, collapsible_headers : CollapsibleOptions]

\* The blocks the parser emits: `###### *t*`, `#### x`, a paragraph, `---`
EmphasisHeading(l, v) ==
    << StartHeading(l), StartEmphasis, Text("Borrowed", v), EndEmphasis, EndHeading(l) >>

PlainHeading(l, v) ==
    << StartHeading(l), Text("Borrowed", v), EndHeading(l) >>

Paragraph(v) ==
    << StartParagraph, Text("Borrowed", v), EndParagraph >>

Blocks ==
    { EmphasisHeading(6, MarkerText), EmphasisHeading(6, ShortcodeText),
      EmphasisHeading(6, << "A" >>),
      EmphasisHeading(4, MarkerText),
      PlainHeading(4, MarkerText), PlainHeading(5, MarkerText),
      Paragraph(ShortcodeText),
      << Rule >> }

----------------------------------------------------------------------------
(* process_commonmark_tokens and its helpers *)

\* positions counted from one
Indexed_from_one(events) == [i \in 1..Len(events) |-> [pos |-> i, tok |-> events[i]]]

\* (0..).zip(events).collect()
Indexed(events) == [i \in 1..Len(events) |-> [pos |-> i - 1, tok |-> events[i]]]

\* a copy that walks the collection backwards
clone_events_reversed(collection_slice) ==
    [i \in 1..Len(collection_slice) |->
        collection_slice[Len(collection_slice) + 1 - i].tok]

\* collection_slice.iter().map(|c| c.1.clone()).collect(), with no plugin
clone_events(collection_slice) ==
    [i \in 1..Len(collection_slice) |-> collection_slice[i].tok]

\* a copy that stops one item early
copy_unmatched_short(collection_slice) ==
    [i \in 1..(Len(collection_slice) - 1) |-> collection_slice[i].tok]

\* no copy at all: the pass returns the empty vector it started with
copy_unmatched_none(collection_slice) == << >>

\* the same copy, taken when check_collection_with returned None
copy_unmatched(collection_slice) ==
    [i \in 1..Len(collection_slice) |-> collection_slice[i].tok]

make_commonmark_plugins(st) ==
    (IF st.emoji_shortcodes THEN << "Emoji" >> ELSE << >>)
    \o (IF st.collapsible_headers.some THEN << "CollapsibleHeaders" >> ELSE << >>)

\* the plugin of the running pass (index is 0-based)
Plugin == plugins[index + 1]

\* ranges.iter().fold(0, |acc, r| acc + r.len())
RECURSIVE SumLen(_)
SumLen(rs) == IF rs = << >> THEN 0 ELSE RangeLen(Head(rs)) + SumLen(Tail(rs))

Idle == "-"

\* the option parser specification at rest
OptionIdle ==
    /\ h_pc = Idle
    /\ h_input = << >>
    /\ h_result = << >>

\* the front matter specification at rest
MatterIdle ==
    /\ m_slice = << >>
    /\ m_pc = Idle
    /\ m_i = 0
    /\ m_til_end = FALSE
    /\ m_range = None

\* no file of the request specification
NoFile == [exists |-> FALSE, utf8 |-> FALSE, matter |-> "none"]

\* the request specification at rest
RequestIdle ==
    /\ front_matter = FALSE
    /\ r_entry = Idle
    /\ r_ext = Idle
    /\ r_files = [md |-> NoFile, req |-> NoFile]
    /\ r_pc = Idle
    /\ r_file = Idle
    /\ r_buf = NoFile
    /\ r_input_utf8 = FALSE
    /\ r_pod = Idle
    /\ r_read = { }
    /\ r_runs = 0
    /\ r_result = << >>

\* the documents of the concurrent specification
Documents == { 1, 2 }

\* the concurrent specification at rest
ConcIdle ==
    /\ c_doc = [d \in Documents |-> << >>]
    /\ c_pc = [d \in Documents |-> Idle]
    /\ c_index = [d \in Documents |-> 0]
    /\ c_collection = [d \in Documents |-> << >>]
    /\ c_ranges = [d \in Documents |-> << >>]
    /\ c_range = [d \in Documents |-> None]
    /\ c_out = [d \in Documents |-> << >>]

Init ==
    /\ state \in States
    /\ pc = "parse"
    /\ parsed = << >>
    /\ plugins = << >>
    /\ index = 0
    /\ collection = << >>
    /\ win = 0
    /\ ch_range = None
    /\ ranges = << >>
    /\ final_ret = None
    /\ final_call = << >>
    /\ scan_result = "pending"
    /\ idx = 0
    /\ range_idx = 0
    /\ plugin_collection = << >>
    /\ rs_slice = << >>
    /\ rs_out = << >>
    /\ new_collection = << >>
    /\ e_pc = Idle
    /\ e_tok = Rule
    /\ e_pos = 0
    /\ e_check = None
    /\ e_out = << >>
    /\ OptionIdle
    /\ RequestIdle
    /\ ConcIdle
    /\ MatterIdle

\* The parser yields the events of one more block of the document.
ParserEmit ==
    /\ pc = "parse"
    /\ \E b \in Blocks :
          /\ Len(parsed) + Len(b) <= MaxLen
          /\ parsed' = parsed \o b
    /\ UNCHANGED << state, pc, plugins, index, collection, win, ch_range, ranges,
                    final_ret, final_call, scan_result, idx, range_idx, plugin_collection,
                    rs_slice, rs_out, new_collection >>
    /\ UNCHANGED beside_pipeline

\* process_commonmark_tokens with an empty plugin list
ProcessNoPlugins ==
    /\ pc = "parse"
    /\ make_commonmark_plugins(state) = << >>
    /\ plugins' = << >>
    /\ collection' = Indexed(parsed)
    /\ new_collection' = clone_events(Indexed(parsed))
    /\ pc' = "done"
    /\ UNCHANGED << state, parsed, index, win, ch_range, ranges, final_ret, final_call,
                    scan_result, idx, range_idx, plugin_collection, rs_slice, rs_out >>
    /\ UNCHANGED beside_pipeline

\* process_commonmark_tokens with plugins: entry of the loop, first plugin
ProcessBegin ==
    /\ pc = "parse"
    /\ make_commonmark_plugins(state) # << >>
    /\ plugins' = make_commonmark_plugins(state)
    /\ collection' = Indexed(parsed)
    /\ index' = 0
    /\ win' = 0
    /\ pc' = "scan"
    /\ UNCHANGED << state, parsed, ch_range, ranges, final_ret, final_call, scan_result, idx,
                    range_idx, plugin_collection, rs_slice, rs_out, new_collection >>
    /\ UNCHANGED beside_pipeline

\* check_collection_with: one iteration of the loop over collection.windows(n)
CheckSlice ==
    /\ pc = "scan"
    /\ win + window_size(Plugin) <= Len(collection)
    /\ LET slice == SubSeq(collection, win + 1, win + window_size(Plugin))
           r == check_slice(Plugin, ch_range, slice)
       IN /\ ch_range' = r.range
          /\ ranges' = IF r.ret.some
                       THEN Append(ranges, Range(r.ret.start, r.ret.end))
                       ELSE ranges
    /\ win' = win + 1
    /\ UNCHANGED << state, pc, parsed, plugins, index, collection, final_ret, final_call,
                    scan_result, idx, range_idx, plugin_collection, rs_slice,
                    rs_out, new_collection >>
    /\ UNCHANGED beside_pipeline

\* the length of the collection in place of the last item's position
last_position_past(coll) == Len(coll)

\* collection.last(): the position of the last item
last_position(coll) == coll[Len(coll)].pos

\* check_collection_with after the windows: final_check on the last item and
\* the result; then the branch of process_commonmark_tokens on that result.
FinalCheck ==
    /\ pc = "scan"
    /\ win + window_size(Plugin) > Len(collection)
    /\ LET r == IF collection = << >>
                THEN [range |-> ch_range, ret |-> None]
                ELSE final_check(Plugin, ch_range, last_position(collection))
           all == IF r.ret.some
                  THEN Append(ranges, Range(r.ret.start, r.ret.end))
                  ELSE ranges
       IN /\ ch_range' = r.range
          /\ final_ret' = r.ret
          /\ final_call' = IF collection = << >>
                            THEN << >>
                            ELSE << last_position(collection) >>
          /\ ranges' = all
          /\ IF all = << >>
             THEN /\ scan_result' = "None"
                  /\ new_collection' = copy_unmatched(collection)
                  /\ pc' = "next"
             ELSE /\ scan_result' = "Some"
                  /\ new_collection' = new_collection
                  /\ pc' = "rewrite"
    /\ idx' = 0
    /\ range_idx' = 0
    /\ plugin_collection' = << >>
    /\ UNCHANGED << state, parsed, plugins, index, collection, win, rs_slice, rs_out >>
    /\ UNCHANGED beside_pipeline

\* rewrite_collection_with: one iteration of the while loop
RewriteStep ==
    /\ pc = "rewrite"
    /\ idx < Len(collection)
    /\ LET pair == collection[idx + 1]
       IN IF range_idx < Len(ranges)
          THEN LET range == ranges[range_idx + 1]
               IN IF ~RangeContains(range, pair.pos)
                  THEN /\ plugin_collection' = Append(plugin_collection, pair.tok)
                       /\ idx' = idx + 1
                       /\ UNCHANGED << range_idx, rs_slice, rs_out >>
                  ELSE LET slice == SubSeq(collection, range.start + 1, range.end)
                           out == replace_slice(Plugin, slice)
                       IN /\ plugin_collection' = plugin_collection \o out
                          /\ idx' = idx + RangeLen(range)
                          /\ range_idx' = range_idx + 1
                          /\ rs_slice' = slice
                          /\ rs_out' = out
          ELSE /\ plugin_collection' = Append(plugin_collection, pair.tok)
               /\ idx' = idx + 1
               /\ UNCHANGED << range_idx, rs_slice, rs_out >>
    /\ UNCHANGED << state, pc, parsed, plugins, index, collection, win, ch_range,
                    ranges, final_ret, final_call, scan_result, new_collection >>
    /\ UNCHANGED beside_pipeline

\* rewrite_collection_with returns plugin_collection
RewriteEnd ==
    /\ pc = "rewrite"
    /\ idx >= Len(collection)
    /\ new_collection' = plugin_collection
    /\ pc' = "next"
    /\ UNCHANGED << state, parsed, plugins, index, collection, win, ch_range, ranges,
                    final_ret, final_call, scan_result, idx, range_idx, plugin_collection,
                    rs_slice, rs_out >>
    /\ UNCHANGED beside_pipeline

\* the next iteration of the plugin loop: re-index the previous output
NextPlugin ==
    /\ pc = "next"
    /\ index + 1 < Len(plugins)
    /\ index' = index + 1
    /\ collection' = Indexed(new_collection)
    /\ win' = 0
    /\ ranges' = << >>
    /\ final_ret' = None
    /\ final_call' = << >>
    /\ scan_result' = "pending"
    /\ idx' = 0
    /\ range_idx' = 0
    /\ plugin_collection' = << >>
    /\ rs_slice' = << >>
    /\ rs_out' = << >>
    /\ pc' = "scan"
    /\ UNCHANGED << state, parsed, plugins, ch_range, new_collection >>
    /\ UNCHANGED beside_pipeline

\* the plugin loop ends and process_commonmark_tokens returns new_collection
ProcessEnd ==
    /\ pc = "next"
    /\ index + 1 >= Len(plugins)
    /\ pc' = "done"
    /\ UNCHANGED << state, parsed, plugins, index, collection, win, ch_range, ranges,
                    final_ret, final_call, scan_result, idx, range_idx, plugin_collection,
                    rs_slice, rs_out, new_collection >>
    /\ UNCHANGED beside_pipeline

Next ==
    \/ ParserEmit
    \/ ProcessNoPlugins
    \/ ProcessBegin
    \/ CheckSlice
    \/ FinalCheck
    \/ RewriteStep
    \/ RewriteEnd
    \/ NextPlugin
    \/ ProcessEnd

Spec == Init /\ [][Next]_vars

----------------------------------------------------------------------------
(* The Emoji plugin alone, on a one-token window, as the plugin's unit     *)
(* tests drive it: check_slice on the window, then replace_slice on the    *)
(* token of the returned range.                                            *)

Chars == { ":", "a", "x" }

\* the tokens a window starts from: an empty text, or a token that is no text
EmojiTokens ==
    { Text("Borrowed", << >>), Text("Boxed", << >>), Html(":a:"), Rule }

EmojiWindow == << [pos |-> e_pos, tok |-> e_tok] >>

EmojiInit ==
    /\ state = [emoji_shortcodes |-> TRUE, collapsible_headers |-> NoHeaders]
    /\ pc = Idle
    /\ parsed = << >>
    /\ plugins = << "Emoji" >>
    /\ index = 0
    /\ collection = << >>
    /\ win = 0
    /\ ch_range = None
    /\ ranges = << >>
    /\ final_ret = None
    /\ final_call = << >>
    /\ scan_result = "pending"
    /\ idx = 0
    /\ range_idx = 0
    /\ plugin_collection = << >>
    /\ rs_slice = << >>
    /\ rs_out = << >>
    /\ new_collection = << >>
    /\ e_pc = "input"
    /\ e_tok \in EmojiTokens
    /\ e_pos \in 0..MaxPos
    /\ e_check = None
    /\ e_out = << >>
    /\ OptionIdle
    /\ RequestIdle
    /\ ConcIdle
    /\ MatterIdle

\* the text of the token grows by one character
EmojiType ==
    /\ e_pc = "input"
    /\ e_tok.kind = "Text"
    /\ Len(e_tok.val) < MaxTextLen
    /\ \E c \in Chars : e_tok' = [e_tok EXCEPT !.val = Append(@, c)]
    /\ UNCHANGED << e_pc, e_pos, e_check, e_out >>
    /\ UNCHANGED beside_emoji

\* plugin.check_slice(window)
EmojiCheck ==
    /\ e_pc = "input"
    /\ e_check' = Emoji_check_slice(EmojiWindow)
    /\ e_pc' = "checked"
    /\ UNCHANGED << e_tok, e_pos, e_out >>
    /\ UNCHANGED beside_emoji

\* plugin.replace_slice(&input[range]) for the range check_slice returned
EmojiReplace ==
    /\ e_pc = "checked"
    /\ e_check.some
    /\ e_out' = Emoji_replace_slice(EmojiWindow)
    /\ e_pc' = "replaced"
    /\ UNCHANGED << e_tok, e_pos, e_check >>
    /\ UNCHANGED beside_emoji

EmojiNext ==
    \/ EmojiType
    \/ EmojiCheck
    \/ EmojiReplace

SpecEmoji == EmojiInit /\ [][EmojiNext]_vars

----------------------------------------------------------------------------
(* Properties *)

Tokens(coll) == [i \in 1..Len(coll) |-> coll[i].tok]

LastPosition == collection[Len(collection)].pos

C2_RangesDisjointAscending ==
    \A i, j \in 1..Len(ranges) :
        i < j => /\ ranges[i].start < ranges[j].start
                 /\ ranges[i].end <= ranges[j].start

C2_Witness ==
    /\ pc = "rewrite"
    /\ Plugin = "CollapsibleHeaders"
    /\ Len(ranges) = 2
    /\ final_ret.some

\* C3: for a non-empty token sequence the lengths of the ranges one scan pass
\* collects sum to strictly less than the sequence length, which is the
\* assertion rewrite_collection_with makes before splicing.
C3_CoverageBelowLength ==
    collection # << >> => SumLen(ranges) < Len(collection)

C3_Witness ==
    /\ pc = "rewrite"
    /\ Plugin = "CollapsibleHeaders"
    /\ final_ret.some
    /\ SumLen(ranges) = Len(collection) - 1

\* C4: every range one scan pass collects over n tokens has end > start and
\* end <= n.
C4_RangesInBounds ==
    \A i \in 1..Len(ranges) :
        /\ ranges[i].end > ranges[i].start
        /\ ranges[i].end <= Len(collection)

C4_Witness ==
    /\ pc = "rewrite"
    /\ Plugin = "Emoji"
    /\ Len(ranges) >= 2
    /\ ranges[Len(ranges)].end = Len(collection) - 1

\* C5: a pass in which check_slice and final_check returned none on every
\* call reports no match and its output equals its input token for token.
C5_NoMatchPassIsIdentity ==
    (pc = "next" /\ ranges = << >>) =>
        /\ scan_result = "None"
        /\ Indexed(new_collection) = collection

C5_Witness ==
    /\ pc = "next"
    /\ ranges = << >>
    /\ Plugin = "CollapsibleHeaders"
    /\ win >= 5
    /\ \E i \in 1..Len(collection) : collection[i].tok.val = state.collapsible_headers.text

\* C6: for a non-empty parsed sequence and any plugin configuration the
\* output of process_commonmark_tokens is non-empty.
C6_OutputNonEmpty ==
    (pc = "done" /\ parsed # << >>) => new_collection # << >>

C6_Witness ==
    /\ pc = "done"
    /\ parsed # << >>
    /\ Len(plugins) = 2
    /\ scan_result = "None"
    /\ new_collection # parsed

\* C7: when a CollapsibleHeaders span is still open after the last window,
\* the scan pass emits a final range that ends one past the last token's
\* position, so the range includes the document's last token.
C7_FinalRangeIncludesLastToken ==
    final_ret.some => final_ret.end = LastPosition + 1

\* C8: on every range a scan pass emits, CollapsibleHeaders.replace_slice
\* consumes exactly the 5 header-pattern tokens t0..t4 (t1..t3 become the
\* summary, the heading-open t0 and the heading-close t4 are dropped) and
\* re-emits every matched token after them unchanged and in order.
C8_ReplaceConsumesHeaderPattern ==
    (pc = "rewrite" /\ Plugin = "CollapsibleHeaders" /\ rs_slice # << >>) =>
        /\ Len(rs_slice) >= 5
        /\ rs_slice[1].tok.kind = "Start" /\ rs_slice[1].tok.tag = "Heading"
        /\ rs_slice[5].tok = EndHeading(rs_slice[1].tok.lvl)
        /\ rs_out = << Html("<details open>"), SoftBreak, Html("<summary>"),
                       rs_slice[2].tok, rs_slice[3].tok, rs_slice[4].tok,
                       Html("</summary>") >>
                    \o Tokens(SubSeq(rs_slice, 6, Len(rs_slice)))
                    \o << Html("</details>") >>

\* The window the specification describes: heading-open at the configured
\* level or deeper, emphasis-open, text equal to the marker, emphasis-close.
MarkerWindow(slice) ==
    /\ slice[1].tok.kind = "Start" /\ slice[1].tok.tag = "Heading"
    /\ slice[1].tok.lvl >= state.collapsible_headers.level
    /\ slice[2].tok = StartEmphasis
    /\ slice[3].tok.kind = "Text"
    /\ slice[3].tok.val = state.collapsible_headers.text
    /\ slice[4].tok = EndEmphasis

CurrentWindow == SubSeq(collection, win + 1, win + CH_window_size)

InHeadersScan ==
    /\ pc = "scan"
    /\ Plugin = "CollapsibleHeaders"
    /\ win + CH_window_size <= Len(collection)

\* C9: CollapsibleHeaders moves from Closed to Open(start) exactly when, with
\* no span open, the window is [heading-open with level >= the configured
\* level, emphasis-open, text equal to the marker, emphasis-close], and then
\* start is the heading-open token's position; and when the configured level
\* is greater than every heading level present, the pass produces no range
\* and its output equals its input.
C9_OpensExactlyOnMarkerWindow ==
    /\ [][ /\ (~ch_range.some /\ ch_range'.some) =>
                  /\ InHeadersScan
                  /\ MarkerWindow(CurrentWindow)
                  /\ ch_range'.start = CurrentWindow[1].pos
           /\ (InHeadersScan /\ ~ch_range.some /\ MarkerWindow(CurrentWindow)) =>
                  ch_range'.some ]_vars
    /\ [] ( ( /\ pc = "next"
              /\ Plugin = "CollapsibleHeaders"
              /\ \A i \in 1..Len(collection) :
                    (collection[i].tok.kind = "Start" /\ collection[i].tok.tag = "Heading")
                        => collection[i].tok.lvl < state.collapsible_headers.level )
            => (ranges = << >> /\ Indexed(new_collection) = collection) )

\* two colons of the text enclose a non-empty known shortcode name
HasShortcode(value) ==
    \E i, j \in 1..Len(value) :
        /\ i + 1 < j
        /\ value[i] = ":" /\ value[j] = ":"
        /\ SubSeq(value, i + 1, j - 1) \in DOMAIN EmojiTable

\* C10: Emoji.check_slice on a one-token window holding a text token at
\* position p returns [p, p+1) if two colons anywhere in the text enclose a
\* non-empty known emoji name, and none otherwise or for a non-text token.
C10_CheckSliceFindsShortcodeAnywhere ==
    e_pc = "checked" =>
        e_check = IF e_tok.kind = "Text" /\ HasShortcode(e_tok.val)
                  THEN Some(e_pos, e_pos + 1)
                  ELSE None

\* The substitution the specification describes: colons are paired greedily
\* from the left; a pair enclosing a non-empty known name becomes the glyph,
\* any other pair and all text outside the pairs are kept.
RECURSIVE GreedySubstitute(_)
GreedySubstitute(value) ==
    IF value = << >> THEN << >>
    ELSE IF Head(value) # ":" THEN << Head(value) >> \o GreedySubstitute(Tail(value))
    ELSE LET next == FindColon(value, 1)
         IN IF next = -1 THEN value
            ELSE LET name == SubSeq(value, 2, next)
                     rest == SubSeq(value, next + 2, Len(value))
                 IN (IF name \in DOMAIN EmojiTable
                     THEN << EmojiTable[name] >>
                     ELSE SubSeq(value, 1, next + 1))
                    \o GreedySubstitute(rest)

\* C11: Emoji.replace_slice on one text token substitutes every candidate of
\* the greedy left-to-right pairing of colons that resolves to a known emoji
\* with its glyph, colons included, and leaves all other text unchanged; the
\* result is exactly one text token.
C11_ReplaceSubstitutesGreedyCandidates ==
    (e_pc = "replaced" /\ e_tok.kind = "Text") =>
        /\ Len(e_out) = 1
        /\ e_out[1].kind = "Text"
        /\ e_out[1].val = GreedySubstitute(e_tok.val)

ColonPositions(value) == { i \in 1..Len(value) : value[i] = ":" }

LastColon(value) ==
    CHOOSE i \in ColonPositions(value) : \A j \in ColonPositions(value) : j <= i

EndsWith(hay, tail) ==
    /\ Len(tail) <= Len(hay)
    /\ SubSeq(hay, Len(hay) - Len(tail) + 1, Len(hay)) = tail

\* C12: when the text has an odd number of colons, the trailing partial run
\* (the last, unpaired colon and the text after it) appears unchanged in the
\* output of Emoji.replace_slice, whatever characters it contains.
C12_TrailingRunUntouched ==
    ( /\ e_pc = "replaced"
      /\ e_tok.kind = "Text"
      /\ Cardinality(ColonPositions(e_tok.val)) % 2 = 1 ) =>
        EndsWith(e_out[1].val,
                 SubSeq(e_tok.val, LastColon(e_tok.val), Len(e_tok.val)))

\* the parsed document holds a marker heading for the configured options
ContainsMarkerHeading ==
    \E i \in 1..Len(parsed) :
        /\ i + 3 <= Len(parsed)
        /\ MarkerWindow(SubSeq(Indexed(parsed), i, i + 3))

\* the events hold a text token with a known shortcode
ContainsShortcode(events) ==
    \E i \in 1..Len(events) :
        events[i].kind = "Text" /\ HasShortcode(events[i].val)

InSecondPass == index = 1 /\ pc \in { "scan", "rewrite" }

\* C13: with both plugins configured, a document holding both a collapsible
\* marker heading and an emoji shortcode has both transformations applied in
\* the final output, and the second pass works on the first pass's output
\* re-indexed from zero.
C13_BothTransformationsApplied ==
    /\ ( /\ pc = "done"
         /\ Len(plugins) = 2
         /\ ContainsMarkerHeading
         /\ ContainsShortcode(parsed) ) =>
            /\ \E k \in 1..Len(new_collection) :
                  new_collection[k] = Html("<details open>")
            /\ ~ContainsShortcode(new_collection)
    /\ (Len(plugins) = 2 /\ InSecondPass) => collection = Indexed(new_collection)

\* the splice of the ranges rs into the tokens of coll from position from on
RECURSIVE SpliceFrom(_, _, _)
SpliceFrom(coll, rs, from) ==
    IF rs = << >>
    THEN Tokens(SubSeq(coll, from + 1, Len(coll)))
    ELSE LET r == Head(rs)
         IN Tokens(SubSeq(coll, from + 1, r.start))
            \o replace_slice(Plugin, SubSeq(coll, r.start + 1, r.end))
            \o SpliceFrom(coll, Tail(rs), r.end)

RewriteReturned == pc \in { "next", "done" } /\ scan_result = "Some"

\* C19: given ascending, disjoint, in-bounds ranges, rewrite_collection_with
\* outputs in the original order every token no range covers as it is and, in
\* place of each range, the output of replace_slice on the tokens at
\* [start, end); every range is replaced once and no uncovered token is
\* dropped or duplicated.
C19_SpliceReplacesEachRangeOnce ==
    RewriteReturned =>
        /\ new_collection = SpliceFrom(collection, ranges, 0)
        /\ range_idx = Len(ranges)

C19_Witness ==
    /\ RewriteReturned
    /\ Len(ranges) = 2
    /\ ranges[1].start > 0
    /\ ranges[1].end < ranges[2].start
    /\ new_collection # Tokens(collection)

InPass == pc \in { "scan", "rewrite", "next" }

\* C20: with N >= 1 plugins there is one scan and splice pass per plugin, in
\* list order; the input of pass k+1 is the output of pass k with positions
\* renumbered 0, 1, 2, ... contiguously, so no pass sees a position of an
\* earlier pass.
C20_OnePassPerPluginOnPreviousOutput ==
    /\ [][ /\ index' \in { index, index + 1 }
           /\ (pc = "scan" /\ pc' # "scan") => index' = index
           /\ (index' = index + 1) =>
                  (pc = "next" /\ pc' = "scan"
                   /\ Tokens(collection') = new_collection) ]_vars
    /\ [](InPass => \A i \in 1..Len(collection) : collection[i].pos = i - 1)
    /\ []((pc = "scan" /\ index > 0) => Tokens(collection) = new_collection)
    /\ []((pc = "done" /\ plugins # << >>) => index = Len(plugins) - 1)

C20_Witness ==
    /\ pc = "scan"
    /\ index = 1
    /\ new_collection # parsed
    /\ collection = Indexed(new_collection)

----------------------------------------------------------------------------
(* parse_collapsible_headers (state.rs), the value parser of the           *)
(* --collapsible-headers option, on arguments typed character by character *)

\* longest argument of the option parser specification, in characters
MaxInputLen == 4

OptionChars == { "h", "0", "1", "6", "7", ":", "=", "x" }

\* char::to_digit(10); -1 stands for None
to_digit(c) ==
    CASE c = "0" -> 0
      [] c = "1" -> 1
      [] c = "6" -> 6
      [] c = "7" -> 7
      [] OTHER   -> -1

OptionOk(level, text) == [ok |-> TRUE, level |-> level, text |-> text, err |-> "-"]

OptionErr(kind) == [ok |-> FALSE, level |-> 0, text |-> << >>, err |-> kind]

\* the parser with the separator test left out
parse_collapsible_headers_any_separator(s) ==
    IF Len(s) >= 2 /\ s[1] = "h"
    THEN IF to_digit(s[2]) \in 1..6 /\ Len(s) >= 4
         THEN OptionOk(to_digit(s[2]), SubSeq(s, 4, Len(s)))
         ELSE OptionErr("text")
    ELSE IF s = << >> THEN OptionErr("text") ELSE OptionOk(1, s)

parse_collapsible_headers(s) ==
    IF Len(s) >= 2 /\ s[1] = "h"
    THEN LET digit == to_digit(s[2])
         IN IF digit = -1
            THEN OptionErr("Header level is not a digit")
            ELSE IF digit \notin 1..6
            THEN OptionErr("Header level does not fall within 1..6")
            ELSE IF Len(s) >= 3 /\ s[3] \notin { ":", "=" }
            THEN OptionErr("The third character must be a colon or equals sign")
            ELSE LET remainder == SubSeq(s, 4, Len(s))
                 IN IF remainder = << >>
                    THEN OptionErr("Some text to match against is required")
                    ELSE OptionOk(digit, remainder)
    ELSE IF s = << >>
         THEN OptionErr("Some text to match against is required")
         ELSE OptionOk(1, s)

\* the locals of process_commonmark_tokens when it is not running
PipelineLocalsIdle ==
    /\ pc = Idle
    /\ parsed = << >>
    /\ plugins = << >>
    /\ index = 0
    /\ collection = << >>
    /\ win = 0
    /\ ch_range = None
    /\ ranges = << >>
    /\ final_ret = None
    /\ final_call = << >>
    /\ scan_result = "pending"
    /\ idx = 0
    /\ range_idx = 0
    /\ plugin_collection = << >>
    /\ rs_slice = << >>
    /\ rs_out = << >>
    /\ new_collection = << >>

\* the pipeline at rest
PipelineIdle ==
    /\ state = [emoji_shortcodes |-> FALSE, collapsible_headers |-> NoHeaders]
    /\ PipelineLocalsIdle

\* the Emoji specification at rest
EmojiIdle ==
    /\ e_pc = Idle
    /\ e_tok = Rule
    /\ e_pos = 0
    /\ e_check = None
    /\ e_out = << >>

\* what the steps of the option parser specification leave alone
beside_option == << pipeline_vars, emoji_vars, request_vars, conc_vars, matter_vars >>

OptionInit ==
    /\ PipelineIdle
    /\ EmojiIdle
    /\ RequestIdle
    /\ ConcIdle
    /\ MatterIdle
    /\ h_pc = "input"
    /\ h_input = << >>
    /\ h_result = << >>

\* the argument grows by one character
OptionType ==
    /\ h_pc = "input"
    /\ Len(h_input) < MaxInputLen
    /\ \E c \in OptionChars : h_input' = Append(h_input, c)
    /\ UNCHANGED << h_pc, h_result >>
    /\ UNCHANGED beside_option

\* clap calls the value parser on the argument
OptionParse ==
    /\ h_pc = "input"
    /\ h_result' = parse_collapsible_headers(h_input)
    /\ h_pc' = "parsed"
    /\ UNCHANGED h_input
    /\ UNCHANGED beside_option

OptionNext ==
    \/ OptionType
    \/ OptionParse

SpecOption == OptionInit /\ [][OptionNext]_vars

\* C14: on an argument 'h' d s t the parser returns Ok((d, t)) exactly when d
\* is a digit in 1..=6, the separator s is ':' or '=' and the text t is not
\* empty; it returns an error when d is a digit outside 1..6, when d is no
\* digit, when the third character is neither ':' nor '=', and when no text
\* follows the level.
C14_OptionAcceptedExactlyWhenWellFormed ==
    (h_pc = "parsed" /\ Len(h_input) >= 2 /\ h_input[1] = "h") =>
        LET d == h_input[2]
            has_s == Len(h_input) >= 3
            t == SubSeq(h_input, 4, Len(h_input))
            level_ok == to_digit(d) \in 1..6
            sep_ok == has_s /\ h_input[3] \in { ":", "=" }
        IN /\ h_result.ok <=> (level_ok /\ sep_ok /\ t # << >>)
           /\ h_result.ok => (h_result.level = to_digit(d) /\ h_result.text = t)
           /\ (to_digit(d) # -1 /\ ~level_ok) =>
                  h_result = OptionErr("Header level does not fall within 1..6")
           /\ to_digit(d) = -1 => h_result = OptionErr("Header level is not a digit")
           /\ (level_ok /\ has_s /\ ~sep_ok) =>
                  h_result = OptionErr("The third character must be a colon or equals sign")
           /\ (level_ok /\ (~has_s \/ sep_ok) /\ t = << >>) =>
                  h_result = OptionErr("Some text to match against is required")

C14_Witness ==
    /\ h_pc = "parsed"
    /\ h_input = << "h", "6", "=", "x" >>
    /\ h_result = OptionOk(6, << "x" >>)

----------------------------------------------------------------------------
(* One request: determine and generate_payload_from_path of the core crate *)
(* (crates/core/src/lib.rs) and the determine handler of the HTTP server   *)
(* (src/lib.rs, crates/async/src/lib.rs), on a file system of two paths:   *)
(* the requested path and the path with the extension replaced by .md.     *)

Entries == { "determine", "generate_payload_from_path", "http_determine" }

Extensions == { "md", "html", "json", "csv", "xxx" }

\* a file: absent, or its bytes as far as the code looks at them
FileStates ==
    { NoFile,
      [exists |-> TRUE, utf8 |-> FALSE, matter |-> "none"],
      [exists |-> TRUE, utf8 |-> TRUE, matter |-> "none"],
      [exists |-> TRUE, utf8 |-> TRUE, matter |-> "valid"],
      [exists |-> TRUE, utf8 |-> TRUE, matter |-> "malformed"] }

\* every unknown extension taken for Markdown
PayloadFormats_try_from_markdown(value) ==
    CASE value = "html" -> "Html"
      [] value = "json" -> "Json"
      [] value = "csv"  -> "Csv"
      [] OTHER          -> "Markdown"

\* formats::Payload::try_from(&str).ok(); "none" stands for None
PayloadFormats_try_from(value) ==
    CASE value = "md"   -> "Markdown"
      [] value = "html" -> "Html"
      [] value = "json" -> "Json"
      [] value = "csv"  -> "Csv"
      [] OTHER          -> "none"

\* Matter::as_pod on the text of a file: the outcomes the front matter
\* library can give; "none" stands for None
Matter_as_pod(file) ==
    CASE file.matter = "valid"     -> { "data" }
      [] file.matter = "malformed" -> { "none", "null" }
      [] OTHER                     -> { "none" }

\* state.front_matter.and_then(|fm| str::from_utf8(slice).ok().and_then(|s| fm.as_pod(s)))
front_matter_outcomes(fm, file) ==
    IF fm /\ file.utf8 THEN Matter_as_pod(file) ELSE { "none" }

Ok(what) == [ok |-> TRUE, what |-> what, err |-> "-", cause |-> "-"]

Err(msg, cause) == [ok |-> FALSE, what |-> "-", err |-> msg, cause |-> cause]

\* Payload::into_response_for of the core crate
into_response_for(extension) ==
    IF extension \in { "Html", "Json", "Yaml", "Toml", "Pickle" }
    THEN Ok("response")
    ELSE Err("Not valid.", "-")

\* Payload::into_response_for of the HTTP server
http_into_response_for(extension) ==
    IF extension \in { "Html", "Json", "Yaml", "Toml", "Pickle" }
    THEN Ok("response")
    ELSE Err("BAD_REQUEST", "-")

\* what the steps of the request specification leave alone
beside_request == << pipeline_vars, emoji_vars, option_vars, conc_vars, matter_vars >>

RequestInit ==
    /\ PipelineIdle
    /\ EmojiIdle
    /\ OptionIdle
    /\ ConcIdle
    /\ MatterIdle
    /\ front_matter \in BOOLEAN
    /\ r_entry \in Entries
    /\ r_ext \in Extensions
    /\ r_files \in [md : FileStates, req : FileStates]
    /\ r_ext = "md" => r_files.req = r_files.md
    /\ r_pc = "call"
    /\ r_file = Idle
    /\ r_buf = NoFile
    /\ r_input_utf8 = FALSE
    /\ r_pod = Idle
    /\ r_read = { }
    /\ r_runs = 0
    /\ r_result = << >>

Return(result) ==
    /\ r_result' = result
    /\ r_pc' = "returned"

\* determine of the core crate, up to the branch on the extension
CoreDetermine ==
    /\ r_pc = "call"
    /\ r_entry = "determine"
    /\ LET extension == PayloadFormats_try_from(r_ext)
       IN IF extension = "none"
          THEN /\ Return(Err("File path not found.", "-"))
               /\ UNCHANGED r_file
          ELSE IF extension = "Markdown"
          THEN /\ r_pc' = "fetch_md"
               /\ r_file' = "md"
               /\ UNCHANGED r_result
          ELSE /\ r_pc' = "path"
               /\ r_file' = "req"
               /\ UNCHANGED r_result
    /\ UNCHANGED << front_matter, r_entry, r_ext, r_files, r_buf, r_input_utf8,
                    r_pod, r_read, r_runs >>
    /\ UNCHANGED beside_request

\* fetch_md(&path).context(..) of the core crate
CoreFetchMd ==
    /\ r_pc = "fetch_md"
    /\ r_entry = "determine"
    /\ IF r_files[r_file].exists
       THEN /\ r_read' = r_read \cup { r_file }
            /\ r_buf' = r_files[r_file]
            /\ Return(Ok("markdown"))
       ELSE /\ Return(Err("There was an error trying to read the markdown file",
                          "NotFound"))
            /\ UNCHANGED << r_read, r_buf >>
    /\ UNCHANGED << front_matter, r_entry, r_ext, r_files, r_file, r_input_utf8,
                    r_pod, r_runs >>
    /\ UNCHANGED beside_request

\* generate_payload_from_path and generate_payload_from_file, called by
\* determine on the requested path or by the caller
CoreGeneratePayloadFromPath ==
    /\ \/ r_pc = "path" /\ r_entry = "determine"
       \/ r_pc = "call" /\ r_entry = "generate_payload_from_path"
    /\ IF r_files.req.exists
       THEN /\ r_read' = r_read \cup { "req" }
            /\ r_buf' = r_files.req
            /\ r_pc' = "matter"
            /\ UNCHANGED r_result
       ELSE /\ Return(Err("Path does not exist.", "-"))
            /\ UNCHANGED << r_read, r_buf >>
    /\ r_file' = "req"
    /\ UNCHANGED << front_matter, r_entry, r_ext, r_files, r_input_utf8, r_pod,
                    r_runs >>
    /\ UNCHANGED beside_request

\* the front matter step of generate_payload_from_slice and generate_payload
ExtractFrontMatter ==
    /\ r_pc = "matter"
    /\ \E tp \in front_matter_outcomes(front_matter, r_buf) :
          /\ r_pod' = IF tp = "none" THEN "empty" ELSE tp
          /\ r_input_utf8' = IF tp = "none" THEN r_buf.utf8 ELSE TRUE
    /\ r_pc' = "process"
    /\ UNCHANGED r_result
    /\ UNCHANGED << front_matter, r_entry, r_ext, r_files, r_file, r_buf, r_read,
                    r_runs >>
    /\ UNCHANGED beside_request

\* generate_payload_from_slice from str::from_utf8(&input[..]) on
CoreProcess ==
    /\ r_pc = "process"
    /\ r_entry \in { "determine", "generate_payload_from_path" }
    /\ IF r_input_utf8
       THEN /\ r_runs' = r_runs + 1
            /\ IF r_entry = "determine"
               THEN r_pc' = "respond" /\ UNCHANGED r_result
               ELSE Return(Ok("payload"))
       ELSE /\ Return(Err("Content failed to be parsed into utf8.", "-"))
            /\ UNCHANGED r_runs
    /\ UNCHANGED << front_matter, r_entry, r_ext, r_files, r_file, r_buf,
                    r_input_utf8, r_pod, r_read >>
    /\ UNCHANGED beside_request

\* determine of the core crate: ?.into_response_for(extension)
CoreIntoResponse ==
    /\ r_pc = "respond"
    /\ r_entry = "determine"
    /\ Return(into_response_for(PayloadFormats_try_from(r_ext)))
    /\ UNCHANGED << front_matter, r_entry, r_ext, r_files, r_file, r_buf,
                    r_input_utf8, r_pod, r_read, r_runs >>
    /\ UNCHANGED beside_request

\* determine of the HTTP server, up to the branch on the extension
HttpDetermine ==
    /\ r_pc = "call"
    /\ r_entry = "http_determine"
    /\ LET extension == PayloadFormats_try_from(r_ext)
       IN IF extension = "none"
          THEN /\ Return(Err("BAD_REQUEST", "-"))
               /\ UNCHANGED r_file
          ELSE /\ r_pc' = IF extension = "Markdown" THEN "fetch_md" ELSE "path"
               /\ r_file' = "md"
               /\ UNCHANGED r_result
    /\ UNCHANGED << front_matter, r_entry, r_ext, r_files, r_buf, r_input_utf8,
                    r_pod, r_read, r_runs >>
    /\ UNCHANGED beside_request

\* the Markdown branch of the HTTP determine
HttpFetchMd ==
    /\ r_pc = "fetch_md"
    /\ r_entry = "http_determine"
    /\ IF r_files[r_file].exists
       THEN /\ r_read' = r_read \cup { r_file }
            /\ r_buf' = r_files[r_file]
            /\ Return(IF r_files[r_file].utf8
                      THEN Ok("markdown")
                      ELSE Err("BAD_REQUEST", "-"))
       ELSE /\ Return(Err("NOT_FOUND", "-"))
            /\ UNCHANGED << r_read, r_buf >>
    /\ UNCHANGED << front_matter, r_entry, r_ext, r_files, r_file, r_input_utf8,
                    r_pod, r_runs >>
    /\ UNCHANGED beside_request

\* generate_payload of the HTTP server: try_exists and fetch_md
HttpGeneratePayload ==
    /\ r_pc = "path"
    /\ r_entry = "http_determine"
    /\ IF r_files[r_file].exists
       THEN /\ r_read' = r_read \cup { r_file }
            /\ r_buf' = r_files[r_file]
            /\ r_pc' = "matter"
            /\ UNCHANGED r_result
       ELSE /\ Return(Err("NOT_FOUND", "-"))
            /\ UNCHANGED << r_read, r_buf >>
    /\ UNCHANGED << front_matter, r_entry, r_ext, r_files, r_file, r_input_utf8,
                    r_pod, r_runs >>
    /\ UNCHANGED beside_request

\* generate_payload of the HTTP server from str::from_utf8(&input[..]) on
HttpProcess ==
    /\ r_pc = "process"
    /\ r_entry = "http_determine"
    /\ IF r_input_utf8
       THEN /\ r_runs' = r_runs + 1
            /\ r_pc' = "respond"
            /\ UNCHANGED r_result
       ELSE /\ Return(Err("NO_CONTENT", "-"))
            /\ UNCHANGED r_runs
    /\ UNCHANGED << front_matter, r_entry, r_ext, r_files, r_file, r_buf,
                    r_input_utf8, r_pod, r_read >>
    /\ UNCHANGED beside_request

\* determine of the HTTP server: the payload turned into the response
HttpIntoResponse ==
    /\ r_pc = "respond"
    /\ r_entry = "http_determine"
    /\ Return(http_into_response_for(PayloadFormats_try_from(r_ext)))
    /\ UNCHANGED << front_matter, r_entry, r_ext, r_files, r_file, r_buf,
                    r_input_utf8, r_pod, r_read, r_runs >>
    /\ UNCHANGED beside_request

RequestNext ==
    \/ CoreDetermine
    \/ CoreFetchMd
    \/ CoreGeneratePayloadFromPath
    \/ ExtractFrontMatter
    \/ CoreProcess
    \/ CoreIntoResponse
    \/ HttpDetermine
    \/ HttpFetchMd
    \/ HttpGeneratePayload
    \/ HttpProcess
    \/ HttpIntoResponse

SpecRequest == RequestInit /\ [][RequestNext]_vars

\* the nine extensions formats::Payload knows
SupportedExtensions ==
    { "json", "toml", "yaml", "html", "md", "pickle", "cbor", "csv", "postcard" }

\* C15: the core determine returns an error, never a payload, and a distinct
\* one, in each of these cases: an extension that is none of the nine
\* supported gives 'File path ... not found.' and no file is read; a .md path
\* of a file that does not exist gives an error whose cause is an I/O
\* NotFound; generate_payload_from_path on a path that does not exist gives
\* 'Path ... does not exist.'.
C15_CoreErrorsAreDistinct ==
    r_pc = "returned" =>
        /\ (r_entry = "determine" /\ r_ext \notin SupportedExtensions) =>
              /\ r_result = Err("File path not found.", "-")
              /\ r_read = { }
        /\ (r_entry = "determine" /\ r_ext = "md" /\ ~r_files.md.exists) =>
              /\ ~r_result.ok
              /\ r_result.cause = "NotFound"
              /\ r_result.err # "File path not found."
        /\ (r_entry = "generate_payload_from_path" /\ ~r_files.req.exists) =>
              /\ r_result = Err("Path does not exist.", "-")
              /\ r_runs = 0

C15_Witness ==
    /\ r_pc = "returned"
    /\ r_entry = "determine"
    /\ r_ext = "xxx"
    /\ r_files.req.exists
    /\ r_files.md.exists
    /\ ~r_result.ok

\* C16: the HTTP determine handler answers NOT_FOUND for every request whose
\* file cannot be resolved and BAD_REQUEST for every request whose file is
\* not valid UTF-8, whichever supported extension was requested.
C16_HttpStatusPerFailure ==
    ( /\ r_pc = "returned"
      /\ r_entry = "http_determine"
      /\ r_ext \in SupportedExtensions ) =>
        /\ ~r_files.md.exists => r_result = Err("NOT_FOUND", "-")
        /\ (r_files.md.exists /\ ~r_files.md.utf8) => r_result = Err("BAD_REQUEST", "-")

\* C17: each upstream failure (document not found, content not valid UTF-8,
\* front matter that fails to parse) comes back to the caller as an error
\* distinct from the others, and in each of these cases the rewrite pipeline
\* is never run.
C17_UpstreamFailuresAreErrors ==
    (r_pc = "returned" /\ r_entry = "generate_payload_from_path") =>
        LET file == r_files.req
            not_found == ~file.exists
            not_utf8 == file.exists /\ ~file.utf8
            bad_matter == /\ file.exists /\ file.utf8
                          /\ front_matter /\ file.matter = "malformed"
        IN /\ (not_found \/ not_utf8 \/ bad_matter) => (~r_result.ok /\ r_runs = 0)
           /\ not_found => r_result.err = "Path does not exist."
           /\ not_utf8 => r_result.err = "Content failed to be parsed into utf8."
           /\ bad_matter => r_result.err \notin
                  { "Path does not exist.", "Content failed to be parsed into utf8." }

----------------------------------------------------------------------------
(* Two documents processed at the same time by two requests of the server  *)
(* (src/bin/server.rs: every request calls determine with a clone of the   *)
(* Arc<State>). A step is one scan (check_collection_with) or one splice   *)
(* (rewrite_collection_with) of one document.                              *)

\* most blocks of a document of the concurrent specification
MaxConcBlocks == 2

ConcBlocks == { EmphasisHeading(6, MarkerText), Paragraph(ShortcodeText), << Rule >> }

\* the documents of at most n blocks, the empty one left out below
RECURSIVE DocsUpTo(_)
DocsUpTo(n) ==
    IF n = 0
    THEN { << >> }
    ELSE DocsUpTo(n - 1) \cup { d \o b : d \in DocsUpTo(n - 1), b \in ConcBlocks }

ConcDocs == DocsUpTo(MaxConcBlocks) \ { << >> }

ConcStates ==
    [ emoji_shortcodes : BOOLEAN,
      collapsible_headers : { NoHeaders, [some |-> TRUE, level |-> 6, text |-> MarkerText] } ]

\* check_collection_with: the loop over collection.windows(n) from window w on
RECURSIVE ScanWindows(_, _, _, _, _)
ScanWindows(plugin, range, coll, w, acc) ==
    IF w + window_size(plugin) > Len(coll)
    THEN [range |-> range, ranges |-> acc]
    ELSE LET r == check_slice(plugin, range, SubSeq(coll, w + 1, w + window_size(plugin)))
         IN ScanWindows(plugin, r.range, coll, w + 1,
                        IF r.ret.some
                        THEN Append(acc, Range(r.ret.start, r.ret.end))
                        ELSE acc)

\* check_collection_with: the plugin's range afterwards and the ranges found
\* (none found stands for the result None)
check_collection_with(plugin, range, coll) ==
    LET s == ScanWindows(plugin, range, coll, 0, << >>)
        f == IF coll = << >>
             THEN [range |-> s.range, ret |-> None]
             ELSE final_check(plugin, s.range, coll[Len(coll)].pos)
    IN [ range  |-> f.range,
         ranges |-> IF f.ret.some
                    THEN Append(s.ranges, Range(f.ret.start, f.ret.end))
                    ELSE s.ranges ]

\* rewrite_collection_with: the while loop from idx on
RECURSIVE RewriteLoop(_, _, _, _, _, _)
RewriteLoop(plugin, coll, rs, i, ri, acc) ==
    IF i >= Len(coll)
    THEN acc
    ELSE LET pair == coll[i + 1]
         IN IF ri < Len(rs) /\ RangeContains(rs[ri + 1], pair.pos)
            THEN RewriteLoop(plugin, coll, rs, i + RangeLen(rs[ri + 1]), ri + 1,
                             acc \o replace_slice(plugin,
                                     SubSeq(coll, rs[ri + 1].start + 1, rs[ri + 1].end)))
            ELSE RewriteLoop(plugin, coll, rs, i + 1, ri, Append(acc, pair.tok))

rewrite_collection_with(plugin, coll, rs) == RewriteLoop(plugin, coll, rs, 0, 0, << >>)

\* one plugin instance for all documents
plugin_instance_shared(d) == 1

\* the plugin instances of document d: make_commonmark_plugins builds new
\* boxes on every call, so every document has its own
plugin_instance(d) == d

\* what the steps of the concurrent specification leave alone
beside_conc == << emoji_vars, option_vars, request_vars, matter_vars >>

conc_pipeline_locals == << pc, parsed, plugins, index, collection, win, ch_range,
                           ranges, final_ret, final_call, scan_result, idx, range_idx,
                           plugin_collection, rs_slice, rs_out, new_collection >>

ConcInit ==
    /\ state \in ConcStates
    /\ PipelineLocalsIdle
    /\ EmojiIdle
    /\ OptionIdle
    /\ RequestIdle
    /\ MatterIdle
    /\ c_doc \in [Documents -> ConcDocs]
    /\ c_pc = [d \in Documents |-> "begin"]
    /\ c_index = [d \in Documents |-> 0]
    /\ c_collection = [d \in Documents |-> << >>]
    /\ c_ranges = [d \in Documents |-> << >>]
    /\ c_range = [d \in Documents |-> None]
    /\ c_out = [d \in Documents |-> << >>]

ConcPlugin(d) == make_commonmark_plugins(state)[c_index[d] + 1]

\* generate_payload: the plugins are built and process_commonmark_tokens
\* starts; with no plugin it returns the copy at once
ConcBegin(d) ==
    /\ c_pc[d] = "begin"
    /\ c_collection' = [c_collection EXCEPT ![d] = Indexed(c_doc[d])]
    /\ c_range' = [c_range EXCEPT ![plugin_instance(d)] = None]
    /\ IF make_commonmark_plugins(state) = << >>
       THEN /\ c_out' = [c_out EXCEPT ![d] = clone_events(Indexed(c_doc[d]))]
            /\ c_pc' = [c_pc EXCEPT ![d] = "done"]
       ELSE /\ c_out' = c_out
            /\ c_pc' = [c_pc EXCEPT ![d] = "scan"]
    /\ UNCHANGED << state, c_doc, c_index, c_ranges >>
    /\ UNCHANGED << conc_pipeline_locals, beside_conc >>

\* check_collection_with of the running plugin, and the copy when it
\* returned None
ConcScan(d) ==
    /\ c_pc[d] = "scan"
    /\ LET r == check_collection_with(ConcPlugin(d), c_range[plugin_instance(d)],
                                      c_collection[d])
       IN /\ c_range' = [c_range EXCEPT ![plugin_instance(d)] = r.range]
          /\ c_ranges' = [c_ranges EXCEPT ![d] = r.ranges]
          /\ IF r.ranges = << >>
             THEN /\ c_out' = [c_out EXCEPT ![d] = copy_unmatched(c_collection[d])]
                  /\ c_pc' = [c_pc EXCEPT ![d] = "next"]
             ELSE /\ c_out' = c_out
                  /\ c_pc' = [c_pc EXCEPT ![d] = "splice"]
    /\ UNCHANGED << state, c_doc, c_index, c_collection >>
    /\ UNCHANGED << conc_pipeline_locals, beside_conc >>

\* rewrite_collection_with of the running plugin
ConcSplice(d) ==
    /\ c_pc[d] = "splice"
    /\ c_out' = [c_out EXCEPT ![d] =
                    rewrite_collection_with(ConcPlugin(d), c_collection[d], c_ranges[d])]
    /\ c_pc' = [c_pc EXCEPT ![d] = "next"]
    /\ UNCHANGED << state, c_doc, c_index, c_collection, c_ranges, c_range >>
    /\ UNCHANGED << conc_pipeline_locals, beside_conc >>

\* the next iteration of the plugin loop
ConcNextPlugin(d) ==
    /\ c_pc[d] = "next"
    /\ c_index[d] + 1 < Len(make_commonmark_plugins(state))
    /\ c_index' = [c_index EXCEPT ![d] = @ + 1]
    /\ c_collection' = [c_collection EXCEPT ![d] = Indexed(c_out[d])]
    /\ c_ranges' = [c_ranges EXCEPT ![d] = << >>]
    /\ c_pc' = [c_pc EXCEPT ![d] = "scan"]
    /\ UNCHANGED << state, c_doc, c_range, c_out >>
    /\ UNCHANGED << conc_pipeline_locals, beside_conc >>

\* the plugin loop ends
ConcEnd(d) ==
    /\ c_pc[d] = "next"
    /\ c_index[d] + 1 >= Len(make_commonmark_plugins(state))
    /\ c_pc' = [c_pc EXCEPT ![d] = "done"]
    /\ UNCHANGED << state, c_doc, c_index, c_collection, c_ranges, c_range, c_out >>
    /\ UNCHANGED << conc_pipeline_locals, beside_conc >>

ConcNext ==
    \E d \in Documents :
        \/ ConcBegin(d)
        \/ ConcScan(d)
        \/ ConcSplice(d)
        \/ ConcNextPlugin(d)
        \/ ConcEnd(d)

SpecConc == ConcInit /\ [][ConcNext]_vars

\* the passes k, k+1, ... of one document processed alone
RECURSIVE AlonePasses(_, _, _, _)
AlonePasses(ps, k, events, range) ==
    IF k > Len(ps)
    THEN events
    ELSE LET coll == Indexed(events)
             s == check_collection_with(ps[k], range, coll)
         IN AlonePasses(ps, k + 1,
                        IF s.ranges = << >>
                        THEN Tokens(coll)
                        ELSE rewrite_collection_with(ps[k], coll, s.ranges),
                        s.range)

\* the output of a document processed alone
ProcessedAlone(doc) == AlonePasses(make_commonmark_plugins(state), 1, doc, None)

\* C18: two documents processed at the same time, under any interleaving of
\* their scan and splice steps, each get the output they get when processed
\* alone: every invocation has its own plugin instances and the shared State
\* is only read.
C18_ConcurrentOutputsAsAlone ==
    /\ [][state' = state]_vars
    /\ [](\A d \in Documents : c_pc[d] = "done" => c_out[d] = ProcessedAlone(c_doc[d]))

C18_Witness ==
    /\ c_pc[1] = "done"
    /\ c_pc[2] = "scan"
    /\ c_index[2] = 1
    /\ c_range[1] # None
    /\ c_doc[1] # c_doc[2]
    /\ c_out[1] # c_doc[1]
    /\ c_out[2] # c_doc[2]

----------------------------------------------------------------------------
(* The scanner, the closing conditions and the splice, on the pipeline     *)

\* the number of windows of size w over n tokens
WindowCount(n, w) == IF n - w + 1 > 0 THEN n - w + 1 ELSE 0

\* C21: over a sequence of n tokens and a plugin of window size w the scanner
\* calls check_slice once on each of the max(0, n-w+1) consecutive windows in
\* ascending order and afterwards calls final_check once with the last
\* token's position; with fewer than w tokens there is no window but
\* final_check is still called.
C21_ScannerVisitsEveryWindowThenFinalCheck ==
    [][ /\ (pc = "scan" /\ pc' = "scan") =>
              /\ win < WindowCount(Len(collection), window_size(Plugin))
              /\ win' = win + 1
        /\ (pc = "scan" /\ pc' # "scan") =>
              /\ win = WindowCount(Len(collection), window_size(Plugin))
              /\ Len(final_call') = 1
              /\ collection # << >> => final_call'[1] = Len(collection) - 1 ]_vars

\* C21 as amended: the same for every sequence of n >= 1 tokens; on the empty
\* sequence there is no window and final_check is not called.
C21_ScannerVisitsEveryWindowOfNonEmpty ==
    [][ /\ (pc = "scan" /\ pc' = "scan") =>
              /\ win < WindowCount(Len(collection), window_size(Plugin))
              /\ win' = win + 1
        /\ (pc = "scan" /\ pc' # "scan") =>
              /\ win = WindowCount(Len(collection), window_size(Plugin))
              /\ final_call' = IF collection = << >>
                               THEN << >>
                               ELSE << Len(collection) - 1 >> ]_vars

C21_Witness ==
    /\ pc = "next"
    /\ Plugin = "CollapsibleHeaders"
    /\ Len(collection) = 1
    /\ win = 0
    /\ final_call = << 0 >>

\* a CollapsibleHeaders pass at or after its scan
InHeadersPass ==
    /\ pc \in { "scan", "rewrite", "next" }
    /\ Plugin = "CollapsibleHeaders"

HeadingOpen(tok) == tok.kind = "Start" /\ tok.tag = "Heading"

\* the positions strictly inside range r
Inside(r) == { p \in 0..(Len(collection) - 1) : r.start < p /\ p < r.end }

\* C22: while a span is Open(start), any heading-open token at position p
\* whose level is shallower than the configured threshold closes the span:
\* the scan emits [start, p) and the plugin becomes Closed. So no emitted
\* range, and no open span over the windows seen, reaches past such a token.
C22_ShallowerHeadingCloses ==
    /\ [][ ( /\ pc = "scan" /\ pc' = "scan"
             /\ Plugin = "CollapsibleHeaders"
             /\ ch_range.some
             /\ HeadingOpen(collection[win + 1].tok)
             /\ collection[win + 1].tok.lvl < state.collapsible_headers.level ) =>
               /\ ch_range' = None
               /\ ranges' = Append(ranges, Range(ch_range.start, win)) ]_vars
    /\ [](InHeadersPass =>
            \A i \in 1..Len(ranges) : \A p \in Inside(ranges[i]) :
                ~( /\ HeadingOpen(collection[p + 1].tok)
                   /\ collection[p + 1].tok.lvl < state.collapsible_headers.level ))

ScanReturned == pc \in { "rewrite", "next" } /\ Plugin = "CollapsibleHeaders"

\* C23: while a span is Open(start), any thematic break (Rule) at position p,
\* wherever it is in the sequence, closes the span: the scan emits [start, p)
\* and the rule itself stays outside the range.
C23_RuleClosesWherever ==
    /\ [][ ( /\ pc = "scan" /\ pc' = "scan"
             /\ Plugin = "CollapsibleHeaders"
             /\ ch_range.some
             /\ collection[win + 1].tok = Rule ) =>
               /\ ch_range' = None
               /\ ranges' = Append(ranges, Range(ch_range.start, win)) ]_vars
    /\ [](ScanReturned =>
            \A i \in 1..Len(ranges) : \A p \in Inside(ranges[i]) :
                collection[p + 1].tok # Rule)

\* C24: a second marker-heading window seen while a span is Open(start)
\* closes that span: the range emitted starts at start and ends at the
\* position of the new marker's emphasis-close token, and the plugin is left
\* Closed, so that a marker heading can open a span again.
C24_SecondMarkerCloses ==
    [][ (InHeadersScan /\ ch_range.some /\ MarkerWindow(CurrentWindow)) =>
            /\ ranges' = Append(ranges, Range(ch_range.start, CurrentWindow[4].pos))
            /\ ch_range' = None ]_vars

\* The candidates of the greedy left-to-right pairing of colons from offset
\* `from`: the texts of the pairs that enclose a non-empty name
RECURSIVE GreedyCandidates(_, _)
GreedyCandidates(value, from) ==
    LET open == FindColon(value, from)
        close == IF open = -1 THEN -1 ELSE FindColon(value, open + 1)
    IN IF close = -1 THEN { }
       ELSE (IF close > open + 1 THEN { Slice(value, open, close + 1) } ELSE { })
            \cup GreedyCandidates(value, close + 1)

Unresolved(candidate) ==
    SubSeq(candidate, 2, Len(candidate) - 1) \notin DOMAIN EmojiTable

Occurs(hay, pat) ==
    \E k \in 0..(Len(hay) - Len(pat)) : SubSeq(hay, k + 1, k + Len(pat)) = pat

\* C25: a colon-delimited candidate of the text that does not resolve to a
\* known emoji is still in the output of Emoji.replace_slice, both colons
\* included, whatever other candidates of the same text are substituted.
C25_UnresolvedCandidateKept ==
    (e_pc = "replaced" /\ e_tok.kind = "Text") =>
        \A candidate \in GreedyCandidates(e_tok.val, 0) :
            Unresolved(candidate) => Occurs(e_out[1].val, candidate)

\* the tokens that open or close a container: Start and End tags, and the
\* <details> and <summary> elements a replacement inserts
Opens(tok) ==
    \/ tok.kind = "Start"
    \/ tok \in { Html("<details open>"), Html("<summary>") }

Closes(tok) ==
    \/ tok.kind = "End"
    \/ tok \in { Html("</details>"), Html("</summary>") }

Matches(open, close) ==
    \/ open.kind = "Start" /\ close.kind = "End"
       /\ open.tag = close.tag /\ open.lvl = close.lvl
    \/ open = Html("<details open>") /\ close = Html("</details>")
    \/ open = Html("<summary>") /\ close = Html("</summary>")

\* every opening token has its closing token, properly nested; `stack` holds
\* the containers that are open before events[i]
RECURSIVE Nested(_, _, _)
Nested(events, i, stack) ==
    IF i > Len(events) THEN stack = << >>
    ELSE IF Opens(events[i]) THEN Nested(events, i + 1, Append(stack, events[i]))
    ELSE IF Closes(events[i])
    THEN /\ stack # << >>
         /\ Matches(stack[Len(stack)], events[i])
         /\ Nested(events, i + 1, SubSeq(stack, 1, Len(stack) - 1))
    ELSE Nested(events, i + 1, stack)

WellNested(events) == Nested(events, 1, << >>)

\* C26: the output of a CollapsibleHeaders pass over a well-nested token
\* sequence is well nested, the inserted <details> containers included: no
\* End tag is without its Start, and no Start tag without its End, on either
\* side of a container.
C26_HeadersPassKeepsNesting ==
    (pc = "next" /\ Plugin = "CollapsibleHeaders" /\ WellNested(Tokens(collection)))
        => WellNested(new_collection)

\* C27: determine of the core crate, asked for x.html where x.md exists and
\* x.html does not, generates the payload from x.md and returns it in the
\* requested format.
C27_CoreDetermineReadsMarkdownFile ==
    ( /\ r_entry = "determine"
      /\ r_ext = "html"
      /\ r_files.md.exists /\ r_files.md.utf8
      /\ ~r_files.req.exists
      /\ r_pc = "returned" ) =>
        /\ r_result = Ok("response")
        /\ "md" \in r_read

BorrowedText(tok) == tok.kind = "Text" /\ tok.cow = "Borrowed"

\* the step closed the open span at position e
ClosedAt(e) ==
    /\ ch_range.some /\ ~ch_range'.some
    /\ ranges' = Append(ranges, Range(ch_range.start, e))

\* C28: a text token that an Emoji pass rewrote (owned text) is never taken
\* as the marker by the CollapsibleHeaders pass after it, even when its text
\* equals the marker: a window whose text is not borrowed opens no span and
\* closes none at its emphasis-close position; a span opens, or closes at the
\* emphasis-close position, only on a window with borrowed text.
C28_OwnedTextIsNoMarker ==
    [][ InHeadersScan =>
          /\ (~ch_range.some /\ ch_range'.some) => BorrowedText(CurrentWindow[3].tok)
          /\ ClosedAt(CurrentWindow[4].pos) => BorrowedText(CurrentWindow[3].tok)
          /\ (MarkerWindow(CurrentWindow) /\ CurrentWindow[3].tok.cow = "Boxed") =>
                 /\ ch_range' = ch_range
                 /\ ranges' = ranges ]_vars

\* a marker heading whose text the Emoji pass rewrote to the marker has been
\* scanned and no span is open
C28_Witness ==
    /\ pc = "scan"
    /\ Plugin = "CollapsibleHeaders"
    /\ index = 1
    /\ win = 1
    /\ Len(collection) >= CH_window_size
    /\ MarkerWindow(SubSeq(collection, 1, CH_window_size))
    /\ collection[3].tok.cow = "Boxed"
    /\ ~ch_range.some
    /\ ranges = << >>

\* no pending range covers position p
OutsideRanges(p) ==
    \A k \in 1..Len(ranges) : p < ranges[k].start \/ p >= ranges[k].end

\* C30: rewrite_collection_with ends on every range list a scan of either
\* plugin produces: each iteration moves the cursor forward, by one token that
\* is copied or over tokens that all lie in the range being replaced, so no
\* token outside all ranges is skipped, and the loop ends with the cursor equal
\* to the length of the sequence.
C30_RewriteCursorAdvancesToLength ==
    /\ [][ (pc = "rewrite" /\ pc' = "rewrite") =>
              /\ idx' > idx
              /\ idx' <= Len(collection)
              /\ \A p \in idx..(idx' - 1) :
                    OutsideRanges(collection[p + 1].pos) =>
                        /\ idx' = idx + 1
                        /\ plugin_collection' = Append(plugin_collection, collection[p + 1].tok) ]_vars
    /\ [][ (pc = "rewrite" /\ pc' = "next") => idx = Len(collection) ]_vars

\* the loop has ended after a replacement of several tokens and a copy
C30_Witness ==
    /\ pc = "next"
    /\ scan_result = "Some"
    /\ idx = Len(collection)
    /\ \E k \in 1..Len(ranges) : RangeLen(ranges[k]) > 1 /\ ranges[k].end < Len(collection)

----------------------------------------------------------------------------
(* RefDefMatter: the scan for link reference definitions at the head of a  *)
(* document, and the slice parse_gray_matter takes.                        *)

\* the bytes scan tells apart: b'[', b'\n', and any other byte
MatterBytes == { "[", "\n", "a" }

\* what the steps of the front matter specification leave alone
beside_matter == << pipeline_vars, emoji_vars, option_vars, request_vars, conc_vars >>

\* RefDefMatter::new(slice)
MatterInit ==
    /\ PipelineIdle
    /\ EmojiIdle
    /\ OptionIdle
    /\ RequestIdle
    /\ ConcIdle
    /\ m_slice = << >>
    /\ m_pc = "input"
    /\ m_i = 0
    /\ m_til_end = FALSE
    /\ m_range = None

\* the input grows by one byte
MatterType ==
    /\ m_pc = "input"
    /\ Len(m_slice) < MaxSliceLen
    /\ \E b \in MatterBytes : m_slice' = Append(m_slice, b)
    /\ UNCHANGED << m_pc, m_i, m_til_end, m_range >>
    /\ UNCHANGED beside_matter

\* scan is entered: `let mut til_end = false`
MatterScanBegin ==
    /\ m_pc = "input"
    /\ m_pc' = "scan"
    /\ m_i' = 0
    /\ m_til_end' = FALSE
    /\ UNCHANGED << m_slice, m_range >>
    /\ UNCHANGED beside_matter

\* one iteration of `for i in 0..self.slice.len()`, or the end of the loop
MatterScanStep ==
    /\ m_pc = "scan"
    /\ IF m_i >= Len(m_slice)
       THEN /\ m_pc' = "scanned"
            /\ UNCHANGED << m_i, m_til_end, m_range >>
       ELSE LET b == m_slice[m_i + 1]
            IN IF b = "[" /\ ~m_til_end
               THEN /\ m_til_end' = TRUE
                    /\ m_range' = IF ~m_range.some THEN Some(m_i, 0) ELSE m_range
                    /\ m_i' = m_i + 1
                    /\ UNCHANGED m_pc
               ELSE IF b = "\n"
               THEN /\ m_range' = IF m_range.some
                                  THEN [m_range EXCEPT !.end = m_i]
                                  ELSE m_range
                    /\ m_til_end' = FALSE
                    /\ m_i' = m_i + 1
                    /\ UNCHANGED m_pc
               ELSE IF m_til_end
               THEN /\ m_i' = m_i + 1
                    /\ UNCHANGED << m_pc, m_til_end, m_range >>
               ELSE /\ m_pc' = "scanned"
                    /\ UNCHANGED << m_i, m_til_end, m_range >>
    /\ UNCHANGED m_slice
    /\ UNCHANGED beside_matter

\* &self.slice[r.start..r.end] of parse_gray_matter: a slice out of order or
\* out of bounds panics
MatterParseGrayMatter ==
    /\ m_pc = "scanned"
    /\ m_pc' = IF m_range.some
                  /\ ~(m_range.start <= m_range.end /\ m_range.end <= Len(m_slice))
               THEN "panicked"
               ELSE "parsed"
    /\ UNCHANGED << m_slice, m_i, m_til_end, m_range >>
    /\ UNCHANGED beside_matter

MatterNext ==
    \/ MatterType
    \/ MatterScanBegin
    \/ MatterScanStep
    \/ MatterParseGrayMatter

SpecMatter == MatterInit /\ [][MatterNext]_vars

\* C29: after RefDefMatter.scan on any byte input the recorded range, if any,
\* has start <= end <= the length of the input, so the slice parse_gray_matter
\* takes over that range is in bounds.
C29_ScanRangeInBounds ==
    /\ (m_pc = "scanned" /\ m_range.some) =>
           (m_range.start <= m_range.end /\ m_range.end <= Len(m_slice))
    /\ m_pc # "panicked"

====
